---------------------------- MODULE Spec2Model ----------------------------
(***************************************************************************)
(* Model of sales_tracker.py: the payout split, the cached fetch of the    *)
(* "sales" table, the record filter, and the add / update / delete         *)
(* handlers of the Streamlit script.                                       *)
(*                                                                         *)
(* One run of the script (top to bottom, including a trailing st.rerun())  *)
(* is one step.  Money is counted in whole units; float rounding is not    *)
(* modelled.  Calendar days are numbered 1..MaxDate.                       *)
(***************************************************************************)
EXTENDS Integers, Sequences, FiniteSets, TLC

VARIABLES
    store,        \* rows of the "sales" table held by Supabase
    nextId,       \* next id the table assigns on insert
    cache,        \* the st.cache_data entry of fetch_sales_data
    cacheAge,     \* time since the entry was stored
    dirty,        \* history: the table was written from outside since the entry was stored
    df,           \* the DataFrame the last script run fetched
    last,         \* what the last script run did and showed
    call,         \* last direct call of calculate_payment_split
    fcall         \* last direct call of apply_filters

vars == <<store, nextId, cache, cacheAge, dirty, df, last, call, fcall>>

-----------------------------------------------------------------------------
(* Bounds *)

MaxAmt == 2
MaxDate == 2
MaxRows == 2
MaxId == 2
CacheTTL == 1

Amounts == 0..MaxAmt
Dates == 1..MaxDate
Locations == {"Accra", "Tema"}
UnknownModes == {"Cheque"}

-----------------------------------------------------------------------------
(* Configuration *)

PAYMENT_CHOICES ==
    << "All to Company (MoMo/Bank)",
       "All to Rider (Cash)",
       "Split: Item to Company, Delivery+Tip to Rider" >>

Choices == {PAYMENT_CHOICES[i] : i \in DOMAIN PAYMENT_CHOICES}

\* The lambdas of the table, by key.
PAYMENT_MODE_LOGIC(mode, cost, fee, tip) ==
    CASE mode = "All to Company (MoMo/Bank)" -> <<0, fee + tip>>
      [] mode = "All to Rider (Cash)" -> <<cost, 0>>
      [] mode = "Split: Item to Company, Delivery+Tip to Rider" -> <<0, 0>>

PaymentModeKeys ==
    { "All to Company (MoMo/Bank)",
      "All to Rider (Cash)",
      "Split: Item to Company, Delivery+Tip to Rider" }

\* A lookup without the default: an unknown key raises KeyError.
calculate_payment_split_nodefault(mode, cost, fee, tip) ==
    IF mode \in PaymentModeKeys
    THEN LET p == PAYMENT_MODE_LOGIC(mode, cost, fee, tip)
         IN  [raised |-> FALSE, company_gets |-> p[1], rider_gets |-> p[2]]
    ELSE [raised |-> TRUE, company_gets |-> 0, rider_gets |-> 0]

\* PAYMENT_MODE_LOGIC.get(mode, lambda c, f, t: (0.0, 0.0))(cost, fee, tip)
calculate_payment_split(mode, cost, fee, tip) ==
    LET p == IF mode \in PaymentModeKeys
             THEN PAYMENT_MODE_LOGIC(mode, cost, fee, tip)
             ELSE <<0, 0>>
    IN  [raised |-> FALSE, company_gets |-> p[1], rider_gets |-> p[2]]


-----------------------------------------------------------------------------
(* Dates: the form writes date.strftime('%Y-%m-%d'); the fetch parses it back *)

NaT == 0
None == -1
NullDate == "null"

IsoDays == <<"2024-01-01", "2024-01-02", "2024-01-03", "2024-01-04">>

strftime(d) == IsoDays[d]

\* pd.to_datetime(..., errors='coerce'): what does not parse becomes NaT.
to_datetime(s) ==
    IF \E d \in DOMAIN IsoDays : IsoDays[d] = s
    THEN CHOOSE d \in DOMAIN IsoDays : IsoDays[d] = s
    ELSE NaT

-----------------------------------------------------------------------------
(* The "sales" table *)

Ids(rows) == {rows[i].id : i \in DOMAIN rows}

\* ORDER BY date DESC: a null date sorts first, equal dates by id.
DateKey(r) == IF to_datetime(r.date) = NaT THEN Len(IsoDays) + 1 ELSE to_datetime(r.date)

Precedes(r, q) ==
    \/ DateKey(r) > DateKey(q)
    \/ DateKey(r) = DateKey(q) /\ r.id <= q.id

RECURSIVE select_all(_)
select_all(S) ==
    IF S = {} THEN <<>>
    ELSE LET first == CHOOSE r \in S : \A q \in S : Precedes(r, q)
         IN  <<first>> \o select_all(S \ {first})

\* table("sales").insert(data).execute()
insert(st, id, data, fault) ==
    CASE fault = "raise" -> [raised |-> TRUE, data |-> {}, store |-> st]
      [] fault = "empty" -> [raised |-> FALSE, data |-> {}, store |-> st]
      [] OTHER -> LET row == [id |-> id] @@ data
                  IN  [raised |-> FALSE, data |-> {row}, store |-> st \cup {row}]

\* table("sales").update(update_data).eq("id", id).execute()
update(st, id, update_data, fault) ==
    CASE fault = "raise" -> [raised |-> TRUE, data |-> {}, store |-> st]
      [] fault = "empty" -> [raised |-> FALSE, data |-> {}, store |-> st]
      [] OTHER -> LET hit == {r \in st : r.id = id}
                      new == {update_data @@ r : r \in hit}
                  IN  [raised |-> FALSE, data |-> new, store |-> (st \ hit) \cup new]

\* table("sales").delete().eq("id", id).execute()
delete(st, id, fault) ==
    CASE fault = "raise" -> [raised |-> TRUE, data |-> {}, store |-> st]
      [] fault = "empty" -> [raised |-> FALSE, data |-> {}, store |-> st]
      [] OTHER -> LET hit == {r \in st : r.id = id}
                  IN  [raised |-> FALSE, data |-> hit, store |-> st \ hit]

Faults == {"none", "empty", "raise"}

-----------------------------------------------------------------------------
(* fetch_sales_data and its cache *)

\* The type conversions of the fetch: the date column is parsed, the numeric
\* columns are already numbers.
prepare(row) == [row EXCEPT !.date = to_datetime(row.date)]

\* Body of fetch_sales_data (a cache miss).
fetch_body(st) ==
    LET rows == select_all(st)
    IN  [i \in DOMAIN rows |-> prepare(rows[i])]

cache_clear == [present |-> FALSE, value |-> <<>>]

\* @st.cache_data(ttl=300): the stored value is returned while it is younger
\* than the lifetime; otherwise the body runs and its value is stored.
fetch_sales_data(st, c, age, d) ==
    IF c.present /\ age < CacheTTL
    THEN [df |-> c.value, cache |-> c, age |-> age, dirty |-> d]
    ELSE LET v == fetch_body(st)
         IN  [df |-> v, cache |-> [present |-> TRUE, value |-> v],
              age |-> 0, dirty |-> FALSE]

-----------------------------------------------------------------------------
(* apply_filters *)

\* The date test with both ends excluded.
date_mask_exclusive(d, start_date, end_date) ==
    d # NaT /\ d > start_date /\ d < end_date

\* (df['date'].dt.date >= start_date) & (df['date'].dt.date <= end_date);
\* a comparison with NaT is False.
date_mask(d, start_date, end_date) ==
    d # NaT /\ d >= start_date /\ d <= end_date

\* The filter without its first guard: an absent date bound restricts nothing.
apply_filters_nofilter(rows, start_date, end_date, locations, payment_modes) ==
    LET mask(r) ==
            /\ (start_date = None \/ end_date = None
                  \/ date_mask(r.date, start_date, end_date))
            /\ (locations # {} => r.location \in locations)
            /\ (payment_modes # {} => r.payment_mode \in payment_modes)
    IN  SelectSeq(rows, mask)

apply_filters(rows, start_date, end_date, locations, payment_modes) ==
    IF start_date = None \/ end_date = None
    THEN <<>>
    ELSE LET mask0(r) == date_mask(r.date, start_date, end_date)
             mask1(r) == IF locations # {}
                         THEN mask0(r) /\ r.location \in locations
                         ELSE mask0(r)
             mask2(r) == IF payment_modes # {}
                         THEN mask1(r) /\ r.payment_mode \in payment_modes
                         ELSE mask1(r)
         IN  SelectSeq(rows, mask2)

\* sorted(df['date'].dt.date.dropna().unique())
unique_dates(rows) == {rows[i].date : i \in DOMAIN rows} \ {NaT}

Min(S) == CHOOSE x \in S : \A y \in S : x <= y
Max(S) == CHOOSE x \in S : \A y \in S : x >= y

\* Default value of the date slider: (unique_dates[0], unique_dates[-1]),
\* or (None, None) when no row has a date.
slider_default(rows) ==
    IF unique_dates(rows) # {}
    THEN <<Min(unique_dates(rows)), Max(unique_dates(rows))>>
    ELSE <<None, None>>


-----------------------------------------------------------------------------
(* Messages of the script *)

MsgAdded == "Sale added successfully!"
MsgAddFailed == "Failed to add sale."
MsgUpdated == "Record updated successfully!"
MsgUpdateFailed == "Failed to update record."
MsgDeleted == "Record deleted successfully!"
MsgDeleteFailed == "Failed to delete record."
MsgError == "Error: <exception>"
MsgNoData == "No data yet. Add your first sale above."
MsgEnterValidId == "Please enter a valid Sale ID from the filtered records above to edit or delete."
MsgNothing == ""

\* What the page shows below the form for a fetched DataFrame and a selected
\* id: the no-data note, the enter-a-valid-id note, or the edit form.
page_info(rows, id) ==
    IF rows = <<>> THEN MsgNoData
    ELSE IF id \notin Ids(rows) THEN MsgEnterValidId
    ELSE MsgNothing

-----------------------------------------------------------------------------
(* Inputs of the forms *)

FormMoney == {<<0, 1, 1>>, <<2, 1, 0>>}
FormLocations == {"Accra"}
FormDates == {1}

\* The dict the add-sale handler inserts.
sale_data(date, location, mode, cost, fee, tip, split) ==
    [ date |-> strftime(date), location |-> location,
      cost_of_item |-> cost, delivery_fee |-> fee, tip |-> tip,
      payment_mode |-> mode,
      company_gets |-> split.company_gets, rider_gets |-> split.rider_gets ]

\* An update that leaves the stored shares as they were.
update_data_noshares(new_loc, new_cost, new_fee, new_tip, new_mode, split) ==
    [ location |-> new_loc,
      cost_of_item |-> new_cost, delivery_fee |-> new_fee, tip |-> new_tip,
      payment_mode |-> new_mode ]

\* The dict the update handler writes.
update_data(new_loc, new_cost, new_fee, new_tip, new_mode, split) ==
    [ location |-> new_loc,
      cost_of_item |-> new_cost, delivery_fee |-> new_fee, tip |-> new_tip,
      payment_mode |-> new_mode,
      company_gets |-> split.company_gets, rider_gets |-> split.rider_gets ]

\* The add handler without its st.cache_data.clear().
cache_after_add_noclear(response_data, c) == c

\* if response.data: ... st.cache_data.clear()
cache_after_add(response_data, c) ==
    IF response_data # {} THEN cache_clear ELSE c

\* if response.data or len(response.data) == 0:
delete_succeeded(response_data) ==
    response_data # {} \/ Cardinality(response_data) = 0

RespKind(resp) ==
    IF resp.raised THEN "raise" ELSE IF resp.data = {} THEN "empty" ELSE "rows"

NoCall == [called |-> FALSE, mode |-> "", cost |-> 0, fee |-> 0, tip |-> 0,
           result |-> [raised |-> FALSE, company_gets |-> 0, rider_gets |-> 0]]

NoFilterCall == [called |-> FALSE, df |-> <<>>, start_date |-> None, end_date |-> None,
                 locations |-> {}, payment_modes |-> {}, result |-> <<>>]

Run(op, id, in_df, in_store, resp, info, outcome) ==
    [op |-> op, id |-> id, in_df |-> in_df, in_store |-> in_store,
     resp |-> resp, info |-> info, outcome |-> outcome]

-----------------------------------------------------------------------------
(* The state machine *)

\* The first load of the page over an empty table.
InitApp ==
    /\ store = {}
    /\ nextId = 1
    /\ cache = [present |-> TRUE, value |-> <<>>]
    /\ cacheAge = 0
    /\ dirty = FALSE
    /\ df = <<>>
    /\ last = Run("load", 0, FALSE, FALSE, "none", MsgNoData, MsgNothing)

Init ==
    /\ InitApp
    /\ call = NoCall
    /\ fcall = NoFilterCall

\* What the user typed into a form.  A store call that fails leaves no trace
\* of the values sent, so one representative input stands for all of them.
FormInputs(fault) ==
    IF fault = "none"
    THEN {[date |-> d, location |-> l, mode |-> m,
           cost |-> a[1], fee |-> a[2], tip |-> a[3]] :
             d \in FormDates, l \in FormLocations, m \in Choices, a \in FormMoney}
    ELSE {[date |-> 1, location |-> "Accra", mode |-> PAYMENT_CHOICES[1],
           cost |-> 2, fee |-> 1, tip |-> 0]}

StoreIds == {r.id : r \in store}

\* The form is submitted: "if submitted:" and the rest of the script.
AddSale ==
    \E fault \in Faults : \E in \in FormInputs(fault) :
      /\ nextId <= MaxId
      /\ \E split \in {calculate_payment_split(in.mode, in.cost, in.fee, in.tip)} :
         \E resp \in {IF split.raised
                      THEN [raised |-> TRUE, data |-> {}, store |-> store]
                      ELSE insert(store, nextId,
                                  sale_data(in.date, in.location, in.mode,
                                            in.cost, in.fee, in.tip, split),
                                  fault)} :
         \E page \in {fetch_sales_data(
                          resp.store,
                          IF resp.raised THEN cache
                          ELSE cache_after_add(resp.data, cache),
                          cacheAge, dirty)} :
           /\ store' = resp.store
           /\ nextId' = IF resp.data # {} THEN nextId + 1 ELSE nextId
           /\ cache' = page.cache
           /\ cacheAge' = page.age
           /\ dirty' = page.dirty
           /\ df' = page.df
           /\ last' = Run("add", 0, FALSE, FALSE,
                          IF split.raised THEN "none" ELSE RespKind(resp),
                          MsgNothing,
                          IF resp.raised THEN MsgError
                          ELSE IF resp.data # {} THEN MsgAdded
                          ELSE MsgAddFailed)
      /\ UNCHANGED <<call, fcall>>

\* A sale id is entered: the script runs with no button pressed.  (The id
\* widget keeps its value between runs; entering an id on a page that is
\* still cached changes nothing else, so the id a button acts on is an input
\* of the button's step.)
Rerun ==
    \E id \in 1..MaxId :
    \E page \in {fetch_sales_data(store, cache, cacheAge, dirty)} :
      /\ cache' = page.cache
      /\ cacheAge' = page.age
      /\ dirty' = page.dirty
      /\ df' = page.df
      /\ last' = Run("rerun", id, id \in Ids(page.df), id \in StoreIds, "none",
                     page_info(page.df, id), MsgNothing)
      /\ UNCHANGED <<store, nextId, call, fcall>>

\* The end of a run whose button handler did not reach the store, or whose
\* store call did not succeed: the page drawn from the fetch at its top stays.
\* After a success, st.cache_data.clear() and st.rerun(): the script runs
\* again and fetches anew.
FinishRun(cleared_and_rerun, page, st) ==
    IF cleared_and_rerun
    THEN fetch_sales_data(st, cache_clear, page.age, page.dirty)
    ELSE page

\* "Update Record" is pressed on the page shown (the button exists only
\* when the selected id is in the DataFrame that page was drawn from).
UpdateRecord ==
    \E selected_id \in Ids(df), fault \in Faults : \E in \in FormInputs(fault) :
    \E page \in {fetch_sales_data(store, cache, cacheAge, dirty)} :
    \E edit_row \in {SelectSeq(page.df, LAMBDA r : r.id = selected_id)} :
      IF edit_row = <<>>
      THEN /\ cache' = page.cache
           /\ cacheAge' = page.age
           /\ dirty' = page.dirty
           /\ df' = page.df
           /\ last' = Run("update", selected_id, FALSE, selected_id \in StoreIds,
                          "none", page_info(page.df, selected_id), MsgNothing)
           /\ UNCHANGED <<store, nextId, call, fcall>>
      ELSE \E split \in {calculate_payment_split(in.mode, in.cost, in.fee, in.tip)} :
           \E resp \in {update(store, selected_id,
                               update_data(in.location, in.cost, in.fee, in.tip,
                                           in.mode, split),
                               fault)} :
           \E final \in {FinishRun(~resp.raised /\ resp.data # {}, page, resp.store)} :
             /\ store' = resp.store
             /\ cache' = final.cache
             /\ cacheAge' = final.age
             /\ dirty' = final.dirty
             /\ df' = final.df
             /\ last' = Run("update", selected_id, TRUE, selected_id \in StoreIds,
                            RespKind(resp), MsgNothing,
                            IF resp.raised THEN MsgError
                            ELSE IF resp.data # {} THEN MsgUpdated
                            ELSE MsgUpdateFailed)
             /\ UNCHANGED <<nextId, call, fcall>>

\* "Delete Record" is pressed on the page shown.
DeleteRecord ==
    \E selected_id \in Ids(df), fault \in Faults :
    \E page \in {fetch_sales_data(store, cache, cacheAge, dirty)} :
    \E edit_row \in {SelectSeq(page.df, LAMBDA r : r.id = selected_id)} :
      IF edit_row = <<>>
      THEN /\ cache' = page.cache
           /\ cacheAge' = page.age
           /\ dirty' = page.dirty
           /\ df' = page.df
           /\ last' = Run("delete", selected_id, FALSE, selected_id \in StoreIds,
                          "none", page_info(page.df, selected_id), MsgNothing)
           /\ UNCHANGED <<store, nextId, call, fcall>>
      ELSE \E resp \in {delete(store, selected_id, fault)} :
           \E final \in {FinishRun(~resp.raised /\ delete_succeeded(resp.data),
                                   page, resp.store)} :
             /\ store' = resp.store
             /\ cache' = final.cache
             /\ cacheAge' = final.age
             /\ dirty' = final.dirty
             /\ df' = final.df
             /\ last' = Run("delete", selected_id, TRUE, selected_id \in StoreIds,
                            RespKind(resp), MsgNothing,
                            IF resp.raised THEN MsgError
                            ELSE IF delete_succeeded(resp.data) THEN MsgDeleted
                            ELSE MsgDeleteFailed)
             /\ UNCHANGED <<nextId, call, fcall>>

\* Time passes; the cache entry ages up to its lifetime.
Tick ==
    /\ cacheAge < CacheTTL
    /\ cacheAge' = cacheAge + 1
    /\ last' = Run("tick", 0, FALSE, FALSE, "none", MsgNothing, MsgNothing)
    /\ UNCHANGED <<store, nextId, cache, dirty, df, call, fcall>>

\* A row is removed from the table by someone else.
ExternalDelete ==
    \E r \in store :
      /\ store' = store \ {r}
      /\ dirty' = TRUE
      /\ last' = Run("external", 0, FALSE, FALSE, "none", MsgNothing, MsgNothing)
      /\ UNCHANGED <<nextId, cache, cacheAge, df, call, fcall>>

Next ==
    \/ AddSale
    \/ Rerun
    \/ UpdateRecord
    \/ DeleteRecord
    \/ Tick
    \/ ExternalDelete

Spec == Init /\ [][Next]_vars


-----------------------------------------------------------------------------
(* The two pure functions, called directly *)

Modes == Choices \cup UnknownModes

\* The arguments of a call are drawn at the start; the call is then made.
InitCalc ==
    /\ InitApp
    /\ fcall = NoFilterCall
    /\ \E mode \in Modes, cost \in Amounts, fee \in Amounts, tip \in Amounts :
         call = [NoCall EXCEPT !.mode = mode, !.cost = cost, !.fee = fee, !.tip = tip]

CalcCall ==
    /\ ~call.called
    /\ call' = [call EXCEPT
                  !.called = TRUE,
                  !.result = calculate_payment_split(call.mode, call.cost,
                                                     call.fee, call.tip)]
    /\ UNCHANGED <<store, nextId, cache, cacheAge, dirty, df, last, fcall>>

NextCalc == CalcCall

SpecCalc == InitCalc /\ [][NextCalc]_vars

\* Rows a table can hold when the filter is called: written by the add
\* handler, or by someone else with no date.
RowModes == {PAYMENT_CHOICES[1], PAYMENT_CHOICES[3]}
FilterModes == {PAYMENT_CHOICES[1], PAYMENT_CHOICES[2]}
StoredDates == {strftime(d) : d \in Dates} \cup {NullDate}

TableRow(id, date, location, mode) ==
    [id |-> id] @@
    [sale_data(1, location, mode, 2, 1, 0, calculate_payment_split(mode, 2, 1, 0))
       EXCEPT !.date = date]

Tables ==
    UNION { { {TableRow(id, f[id].date, f[id].location, f[id].mode) : id \in 1..n} :
              f \in [1..n -> [date : StoredDates, location : Locations,
                              mode : RowModes]] } :
            n \in 0..MaxRows }

InitFilter ==
    /\ InitApp
    /\ call = NoCall
    /\ \E table \in Tables : \E rows \in {fetch_body(table)} :
       \E start_date \in Dates \cup {None}, end_date \in Dates \cup {None},
          locations \in SUBSET Locations, payment_modes \in SUBSET FilterModes :
         fcall = [NoFilterCall EXCEPT
                    !.df = rows,
                    !.start_date = start_date, !.end_date = end_date,
                    !.locations = locations, !.payment_modes = payment_modes]

FilterCall ==
    /\ ~fcall.called
    /\ fcall' = [fcall EXCEPT
                   !.called = TRUE,
                   !.result = apply_filters(fcall.df, fcall.start_date, fcall.end_date,
                                            fcall.locations, fcall.payment_modes)]
    /\ UNCHANGED <<store, nextId, cache, cacheAge, dirty, df, last, call>>

NextFilter == FilterCall

SpecFilter == InitFilter /\ [][NextFilter]_vars

-----------------------------------------------------------------------------
(* Properties of calculate_payment_split (SpecCalc) *)

\* C1: for every mode of PAYMENT_CHOICES and non-negative cost, fee and tip,
\* the two shares returned add up to cost + fee + tip.
C1_SharesSumToTotal ==
    (call.called /\ call.mode \in Choices) =>
        call.result.company_gets + call.result.rider_gets
            = call.cost + call.fee + call.tip

\* C3: for the mode "Split: Item to Company, Delivery+Tip to Rider" the
\* company share is the cost and the rider share is fee + tip.
C3_SplitMode ==
    (call.called /\ call.mode = PAYMENT_CHOICES[3]) =>
        /\ call.result.company_gets = call.cost
        /\ call.result.rider_gets = call.fee + call.tip

\* C4: for a mode that is no key of PAYMENT_MODE_LOGIC the call returns
\* (0, 0) as a normal result; it raises nothing.
C4_UnknownModeZero ==
    (call.called /\ call.mode \notin PaymentModeKeys) =>
        /\ ~call.result.raised
        /\ call.result.company_gets = 0
        /\ call.result.rider_gets = 0

C4_Witness ==
    /\ call.called
    /\ call.mode \in UnknownModes
    /\ call.cost > 0 /\ call.fee > 0 /\ call.tip > 0
    /\ call.result = [raised |-> FALSE, company_gets |-> 0, rider_gets |-> 0]

-----------------------------------------------------------------------------
(* Properties of apply_filters (SpecFilter) *)

Range(seq) == {seq[i] : i \in DOMAIN seq}

\* The record satisfies the three conditions of the claim.
Matches(r, c) ==
    /\ r.date # NaT /\ c.start_date <= r.date /\ r.date <= c.end_date
    /\ (c.locations = {} \/ r.location \in c.locations)
    /\ (c.payment_modes = {} \/ r.payment_mode \in c.payment_modes)

\* C5: with both dates given, the result holds exactly the records of the
\* input whose date lies in [start_date, end_date], ends included, whose
\* location is allowed (or no location is given) and whose payment mode is
\* allowed (or no mode is given); each once.
C5_ExactlyTheMatches ==
    (fcall.called /\ fcall.start_date # None /\ fcall.end_date # None) =>
        /\ Range(fcall.result) = {r \in Range(fcall.df) : Matches(r, fcall)}
        /\ Len(fcall.result) = Cardinality(Range(fcall.result))

C5_Witness ==
    /\ fcall.called
    /\ fcall.start_date # None /\ fcall.end_date # None
    /\ fcall.start_date < fcall.end_date
    /\ fcall.locations # {}
    /\ Len(fcall.result) = 2
    /\ \E r \in Range(fcall.result) : r.date = fcall.start_date
    /\ \E r \in Range(fcall.result) : r.date = fcall.end_date

\* C6 as stated: with no date range, no locations and no payment modes the
\* result is the full record list, unchanged.
C6_NoConstraintsReturnsAll ==
    (/\ fcall.called
     /\ fcall.start_date = None /\ fcall.end_date = None
     /\ fcall.locations = {} /\ fcall.payment_modes = {}) =>
        fcall.result = fcall.df

HasDate(r) == r.date # NaT

\* C6 as amended: with a date bound absent the result is empty; with the
\* date range at its default (the earliest and the latest date present), no
\* locations and no payment modes, the result is the list of the records
\* that have a date, unchanged.
C6_AbsentRangeEmpty_DefaultRangeAll ==
    fcall.called =>
        /\ (fcall.start_date = None \/ fcall.end_date = None) =>
               fcall.result = <<>>
        /\ (/\ fcall.start_date # None
            /\ <<fcall.start_date, fcall.end_date>> = slider_default(fcall.df)
            /\ fcall.locations = {} /\ fcall.payment_modes = {}) =>
               fcall.result = SelectSeq(fcall.df, HasDate)

C6_Witness ==
    /\ fcall.called
    /\ fcall.start_date = None /\ fcall.end_date = None
    /\ fcall.locations = {} /\ fcall.payment_modes = {}
    /\ Len(fcall.df) = 2
    /\ fcall.result = <<>>

-----------------------------------------------------------------------------
(* Properties of the handlers (Spec) *)

RunOps == {"load", "add", "rerun", "update", "delete"}
SuccessMessages == {MsgAdded, MsgUpdated, MsgDeleted}
FailureMessages == {MsgAddFailed, MsgUpdateFailed, MsgDeleteFailed, MsgError}

\* C2: every stored record has company_gets + rider_gets
\* = cost_of_item + delivery_fee + tip.
C2_StoredSharesSumToTotal ==
    \A r \in store :
        r.company_gets + r.rider_gets = r.cost_of_item + r.delivery_fee + r.tip

SharesMatchFields(r) ==
    LET s == calculate_payment_split(r.payment_mode, r.cost_of_item,
                                     r.delivery_fee, r.tip)
    IN  r.company_gets = s.company_gets /\ r.rider_gets = s.rider_gets

\* C7: the shares of every stored record are those calculate_payment_split
\* gives for the record's own mode, cost, fee and tip, and the fetched copy
\* of a record carries the same shares.
C7_SharesMatchOwnFields ==
    /\ \A r \in store : SharesMatchFields(r)
    /\ \A i \in DOMAIN df : SharesMatchFields(df[i])

C7_Witness ==
    /\ last.op = "update" /\ last.outcome = MsgUpdated
    /\ \E r \in store : r.id = last.id /\ r.rider_gets = 2
    /\ \E r \in store : r.id # last.id /\ r.company_gets = 2
    /\ Len(df) = 2

\* C8: when the store reports no data or an error for an insert, update or
\* delete, the handler reports a failure, never a success.
C8_StoreFailureIsReported ==
    last.resp \in {"empty", "raise"} => last.outcome \in FailureMessages

\* C9: an update or delete of an id that is absent from the record set (the
\* fetched one, or the table itself when the fetched one is stale) shows a
\* not-found note and sends nothing to the store.
C9_AbsentIdIsNotFound ==
    (last.op \in {"update", "delete"} /\ (~last.in_df \/ ~last.in_store)) =>
        /\ last.info \in {MsgEnterValidId, MsgNoData}
        /\ last.resp = "none"
        /\ last.outcome = MsgNothing

\* C10: the DataFrame a run ends with is the table's content, unless the
\* table was written from outside since the cache entry was stored and the
\* entry is younger than its lifetime; after a successful add, update or
\* delete it is always the table's content.
C10_ReadAfterWrite ==
    last.op \in RunOps =>
        /\ df # fetch_body(store) => (dirty /\ cacheAge < CacheTTL)
        /\ last.outcome \in SuccessMessages => df = fetch_body(store)

C10_Witness ==
    /\ last.op = "add" /\ last.outcome = MsgAdded
    /\ Len(df) = 2
    /\ df = fetch_body(store)

=============================================================================
